---- MODULE Spec2Model ----
(***************************************************************************)
(* Model of the asset batch loader of bevy_bootloader (src/src/loader.rs). *)
(*                                                                         *)
(* A Loader owns a lifecycle state, an atomic counter of pending requests, *)
(* the total frozen by submit() and three queues.  Every mutating method   *)
(* takes `&mut self`, so each call is one atomic step of the model.  The   *)
(* asset server is an asynchronous collaborator: its per-path load state   *)
(* advances on its own threads, so two queries of one tick may see         *)
(* different states of the same path.                                      *)
(***************************************************************************)
EXTENDS Integers, Sequences, FiniteSets, TLC

\* ------------------------------------------------------------------ bounds
\* Largest number of requests the callers keep pending at once.
MaxPending == 2

\* f32 values are fixed-point numbers: integers in units of 1/Scale.
Scale == 16

\* The asset paths the callers use.
Keys == {"a", "b"}

\* The paths of the three-request scenario, in the order they are enqueued,
\* and all the paths the asset server is asked about.
ScenarioPaths == <<"a", "b", "c">>
Paths == Keys \cup {ScenarioPaths[j] : j \in DOMAIN ScenarioPaths}

\* ------------------------------------------------------- program constants
\* Largest value of the usize counter, scaled to 31 bits; an AtomicUsize
\* wraps around to it on fetch_sub at 0.
UsizeMax == 2147483647

\* bevy::asset::LoadState
LoadStates == {"NotLoaded", "Loading", "Loaded", "Failed", "Unloaded"}

\* ------------------------------------------------------------------- state
VARIABLES
    state,           \* Loader::state           : "Ready" | "Loading" | "Done"
    count,           \* Loader::count           : pending requests
    total,           \* Loader::total           : requests frozen by submit()
    request_queue,   \* Loader::request_queue   : sequence of paths
    work_queue,      \* Loader::work_queue      : sequence of paths (the handle of a path is a function of the path)
    complete_queue,  \* Loader::complete_queue  : set of paths (keys of the map)
    load_state,      \* asset server            : path -> the LoadState it last reported (NotLoaded if never asked)
    last_op,         \* the last call, its outcome, and the paths it handed to load_untyped
    submitted,       \* history: a submit() succeeded since construction or the last reset()
    n_enq,           \* history: successful enqueue() calls since construction or the last reset(), -1 once a tick ran
    taken,           \* history: paths for which take() returned a handle since the last successful submit() or reset()
    enqueued,        \* history: enqueue() calls accepted since construction or the last reset() that cleared the loader; MaxPending + 1 stands for any larger number
    unreported,      \* history: paths handed to load_untyped since the loader was last cleared, with no answer Loaded or Failed since
    boot,            \* the Boot component: progress, smoothed_progress and speed, in units of 1/Scale
    conc             \* two execution contexts: the position and locals of the tick in progress and of the caller's call in progress

fields == <<state, count, total, request_queue, work_queue, complete_queue>>
history == <<submitted, n_enq, taken, unreported, enqueued>>
vars == <<state, count, total, request_queue, work_queue, complete_queue,
          load_state, last_op, submitted, n_enq, taken, unreported, enqueued, boot, conc>>

\* No path: the value of a local that holds no path.
NoPath == ""

Op(name, result) == [op |-> name, res |-> result, started |-> <<>>]

\* ------------------------------------------------------------ asset server
\* The load states get_load_state can report for a path it last reported in
\* state s: a load goes NotLoaded -> Loading -> Loaded or Failed, a loaded
\* asset may be unloaded, and Loaded, Failed and Unloaded are terminal.
Later(s) ==
    CASE s = "NotLoaded" -> LoadStates
      [] s = "Loading"   -> {"Loading", "Loaded", "Failed", "Unloaded"}
      [] s = "Loaded"    -> {"Loaded", "Unloaded"}
      [] OTHER           -> {s}

Terminal == {"Loaded", "Failed", "Unloaded"}

\* ---------------------------------------------------------------- helpers
\* AtomicUsize::fetch_sub(1): wraps at 0.
FetchSub(c) == IF c = 0 THEN UsizeMax ELSE c - 1

\* Vec::remove(i), i counted from 0.
\* fetch_add(1) wraps around like fetch_sub(1).
FetchAdd(c) == IF c = UsizeMax THEN 0 ELSE c + 1

VecRemove(v, i) == SubSeq(v, 1, i) \o SubSeq(v, i + 2, Len(v))

SetMax(S) == CHOOSE x \in S : \A y \in S : y <= x

\* ---------------------------------------------------------------- accessors
is_empty == count = 0
total_count == total
pending_count == count
is_done == state = "Done"
is_loaded(path) == path \in complete_queue

\* -------------------------------------------------------------------- Init
Init ==
    /\ state = "Ready"
    /\ count = 0
    /\ total = 0
    /\ request_queue = <<>>
    /\ work_queue = <<>>
    /\ complete_queue = {}
    /\ load_state = [k \in Paths |-> "NotLoaded"]
    /\ last_op = Op("new", "ok")
    /\ submitted = FALSE
    /\ n_enq = 0
    /\ taken = {}
    /\ unreported = {}
    /\ enqueued = 0
    /\ boot = [progress |-> 0, smoothed_progress |-> 0, speed |-> Scale]
    /\ conc = [tpc |-> "idle", cpc |-> "idle", i |-> 0, snapshot |-> <<>>,
               path |-> NoPath, cpath |-> NoPath, started |-> NoPath]

\* ------------------------------------------------------------------- reset
\* The fields of a freshly constructed loader, in the order of `fields`.
Fresh == <<"Ready", 0, 0, <<>>, <<>>, {}>>

\* A variant that forgets to store 0 in count.
ResetKeepsCount ==
    /\ IF state # "Ready"
       THEN /\ request_queue' = <<>>
            /\ work_queue' = <<>>
            /\ count' = count
            /\ total' = 0
            /\ complete_queue' = {}
            /\ state' = "Ready"
       ELSE UNCHANGED fields
    /\ last_op' = Op("reset", state)
    /\ submitted' = FALSE
    /\ n_enq' = 0
    /\ taken' = {}
    /\ unreported' = IF state # "Ready" THEN {} ELSE unreported
    /\ enqueued' = IF state # "Ready" THEN 0 ELSE enqueued
    /\ UNCHANGED <<load_state, conc, boot>>

\* A variant that forgets to clear complete_queue.
ResetKeepsComplete ==
    /\ IF state # "Ready"
       THEN /\ request_queue' = <<>>
            /\ work_queue' = <<>>
            /\ count' = 0
            /\ total' = 0
            /\ complete_queue' = complete_queue
            /\ state' = "Ready"
       ELSE UNCHANGED fields
    /\ last_op' = Op("reset", state)
    /\ submitted' = FALSE
    /\ n_enq' = 0
    /\ taken' = {}
    /\ unreported' = IF state # "Ready" THEN {} ELSE unreported
    /\ enqueued' = IF state # "Ready" THEN 0 ELSE enqueued
    /\ UNCHANGED <<load_state, conc, boot>>

Reset ==
    /\ IF state # "Ready"
       THEN /\ request_queue' = <<>>
            /\ work_queue' = <<>>
            /\ count' = 0
            /\ total' = 0
            /\ complete_queue' = {}
            /\ state' = "Ready"
       ELSE UNCHANGED fields
    /\ last_op' = Op("reset", state)
    /\ submitted' = FALSE
    /\ n_enq' = 0
    /\ taken' = {}
    /\ unreported' = IF state # "Ready" THEN {} ELSE unreported
    /\ enqueued' = IF state # "Ready" THEN 0 ELSE enqueued
    /\ UNCHANGED <<load_state, conc, boot>>

\* ----------------------------------------------------------------- enqueue
\* A variant that appends before it checks the state.
EnqueueUnchecked(path) ==
    /\ request_queue' = Append(request_queue, path)
    /\ count' = count + 1
    /\ last_op' = Op("enqueue", IF state = "Ready" THEN "ok" ELSE "panic")
    /\ n_enq' = IF state = "Ready" /\ n_enq >= 0 THEN n_enq + 1 ELSE n_enq
    /\ enqueued' = IF state = "Ready" /\ enqueued <= MaxPending THEN enqueued + 1 ELSE enqueued
    /\ UNCHANGED <<state, total, work_queue, complete_queue, load_state, submitted, taken, unreported, conc, boot>>

Enqueue(path) ==
    IF state = "Ready"
    THEN /\ request_queue' = Append(request_queue, path)
         /\ count' = count + 1
         /\ last_op' = Op("enqueue", "ok")
         /\ n_enq' = IF n_enq >= 0 THEN n_enq + 1 ELSE n_enq
         /\ enqueued' = IF enqueued <= MaxPending THEN enqueued + 1 ELSE enqueued
         /\ UNCHANGED <<state, total, work_queue, complete_queue, load_state, submitted, taken, unreported, conc, boot>>
    ELSE /\ last_op' = Op("enqueue", "panic")
         /\ UNCHANGED <<fields, load_state, history, conc, boot>>

\* ------------------------------------------------------------------ submit
Submit ==
    /\ total' = Len(request_queue)
    /\ IF state = "Ready"
       THEN /\ state' = "Loading"
            /\ submitted' = TRUE
            /\ taken' = {}
            /\ last_op' = Op("submit", "ok")
       ELSE /\ state' = state
            /\ submitted' = submitted
            /\ taken' = taken
            /\ last_op' = Op("submit", "panic")
    /\ UNCHANGED <<count, request_queue, work_queue, complete_queue, load_state, n_enq, unreported, enqueued, conc, boot>>

\* -------------------------------------------------------------------- take
Take(path) ==
    /\ IF path \in complete_queue
       THEN /\ complete_queue' = complete_queue \ {path}
            /\ last_op' = Op("take", "some")
            /\ taken' = taken \cup {path}
       ELSE /\ complete_queue' = complete_queue
            /\ last_op' = Op("take", "none")
            /\ taken' = taken
    /\ UNCHANGED <<state, count, total, request_queue, work_queue, load_state, submitted, n_enq, unreported, enqueued, conc, boot>>

\* -------------------------------------------------------------------- tick
\* The paths whose load state one tick queries, in query order: every entry
\* of work_queue (the scan queries each entry once, removed or kept), then
\* every drained path of request_queue.
QueryKeys == work_queue \o request_queue

\* The answers get_load_state can give to the queries of one tick, built
\* query by query: the asset server works on its own threads, so a path may
\* advance between two queries, also within one tick.  `done` holds the
\* answers given so far and `ls` the load states as last reported.
RECURSIVE AnswersFrom(_, _)
AnswersFrom(done, ls) ==
    IF Len(done) = Len(QueryKeys)
    THEN {done}
    ELSE LET k == QueryKeys[Len(done) + 1]
         IN  UNION {AnswersFrom(Append(done, t), [ls EXCEPT ![k] = t]) : t \in Later(ls[k])}

Answers == AnswersFrom(<<>>, load_state)

\* The load states as last reported once the queries were answered by ans.
After(ans) ==
    [k \in Paths |->
        LET asked == {j \in 1..Len(QueryKeys) : QueryKeys[j] = k}
        IN  IF asked = {} THEN load_state[k] ELSE ans[SetMax(asked)]]

\* The locals and fields a tick works on: i is the scan index, q the number
\* of get_load_state calls made so far, started the paths handed to
\* load_untyped so far.
TickStart ==
    [work |-> work_queue, complete |-> complete_queue, count |-> count,
     state |-> state, i |-> 0, q |-> 0, started |-> <<>>]

\* A variant of the scan that takes only Loaded, not Failed, as finished.
ScanEntryLoadedOnly(L, st) ==
    IF st = "Loaded"
    THEN [L EXCEPT !.work = VecRemove(@, L.i),
                   !.complete = @ \cup {L.work[L.i + 1]},
                   !.count = FetchSub(@),
                   !.state = IF L.count = 1 THEN "Done" ELSE @,
                   !.q = @ + 1]
    ELSE [L EXCEPT !.i = @ + 1, !.q = @ + 1]

\* A variant of the scan that steps to the next index after a removal too.
ScanEntrySkips(L, st) ==
    IF st \in {"Loaded", "Failed"}
    THEN [L EXCEPT !.work = VecRemove(@, L.i),
                   !.complete = @ \cup {L.work[L.i + 1]},
                   !.count = FetchSub(@),
                   !.state = IF L.count = 1 THEN "Done" ELSE @,
                   !.i = @ + 1,
                   !.q = @ + 1]
    ELSE [L EXCEPT !.i = @ + 1, !.q = @ + 1]

\* A variant of the scan that writes Done whenever an entry finishes.
ScanEntryAlwaysDone(L, st) ==
    IF st \in {"Loaded", "Failed"}
    THEN [L EXCEPT !.work = VecRemove(@, L.i),
                   !.complete = @ \cup {L.work[L.i + 1]},
                   !.count = FetchSub(@),
                   !.state = "Done",
                   !.q = @ + 1]
    ELSE [L EXCEPT !.i = @ + 1, !.q = @ + 1]

\* One iteration of the work queue scan, the entry's load state being st.
ScanEntry(L, st) ==
    IF st \in {"Loaded", "Failed"}
    THEN [L EXCEPT !.work = VecRemove(@, L.i),
                   !.complete = @ \cup {L.work[L.i + 1]},
                   !.count = FetchSub(@),
                   !.state = IF L.count = 1 THEN "Done" ELSE @,
                   !.q = @ + 1]
    ELSE [L EXCEPT !.i = @ + 1, !.q = @ + 1]

RECURSIVE ScanLoop(_, _)
ScanLoop(L, ans) ==
    IF L.i < Len(L.work)
    THEN ScanLoop(ScanEntry(L, ans[L.q + 1]), ans)
    ELSE L

\* A variant of the drain that waits only for paths whose load has not begun.
DrainEntryNoWait(L, path, st) ==
    IF st = "NotLoaded"
    THEN [L EXCEPT !.work = Append(@, path), !.q = @ + 1, !.started = Append(@, path)]
    ELSE [L EXCEPT !.count = FetchSub(@), !.q = @ + 1, !.started = Append(@, path)]

\* A variant of the drain that counts a finished path up instead of down.
DrainEntryCountsUp(L, path, st) ==
    IF st \in {"NotLoaded", "Loading"}
    THEN [L EXCEPT !.work = Append(@, path), !.q = @ + 1, !.started = Append(@, path)]
    ELSE [L EXCEPT !.count = @ + 1, !.q = @ + 1, !.started = Append(@, path)]

\* One iteration of the request drain: load_untyped(path), then the load
\* state st of the handle it returned.
DrainEntry(L, path, st) ==
    IF st \in {"NotLoaded", "Loading"}
    THEN [L EXCEPT !.work = Append(@, path), !.q = @ + 1, !.started = Append(@, path)]
    ELSE [L EXCEPT !.count = FetchSub(@), !.q = @ + 1, !.started = Append(@, path)]

RECURSIVE DrainLoop(_, _, _, _)
DrainLoop(L, snapshot, j, ans) ==
    IF j <= Len(snapshot)
    THEN DrainLoop(DrainEntry(L, snapshot[j], ans[L.q + 1]), snapshot, j + 1, ans)
    ELSE L

\* The fields after a tick whose queries were answered by ans.
TickResult(ans) == DrainLoop(ScanLoop(TickStart, ans), request_queue, 1, ans)

Tick ==
    \E ans \in Answers :
        LET L == TickResult(ans)
        IN  /\ work_queue' = L.work
            /\ complete_queue' = L.complete
            /\ count' = L.count
            /\ state' = L.state
            /\ request_queue' = <<>>
            /\ load_state' = After(ans)
            /\ last_op' = [Op("tick", "ok") EXCEPT !.started = L.started]
            /\ n_enq' = -1
            /\ unreported' = (unreported \cup {L.started[j] : j \in DOMAIN L.started})
                                \ {QueryKeys[q] : q \in {r \in DOMAIN ans : ans[r] \in {"Loaded", "Failed"}}}
            /\ UNCHANGED <<total, submitted, taken, enqueued, conc, boot>>

\* tick_loaders: the driver ticks every live loader each frame.
tick_loaders == Tick

\* ----------------------------------------------------------- specification
Next ==
    \/ \E path \in Keys : (state = "Ready" => count < MaxPending) /\ Enqueue(path)
    \/ Submit
    \/ Reset
    \/ \E path \in Keys : Take(path)
    \/ tick_loaders

Spec == Init /\ [][Next]_vars

\* The scheduler runs tick_loaders every frame.
FairSpec == Spec /\ WF_vars(tick_loaders)

\* ------------------------------------------------------------------ claims
InRequestQueue(k) == \E j \in 1..Len(request_queue) : request_queue[j] = k
InWorkQueue(k) == \E j \in 1..Len(work_queue) : work_queue[j] = k

\* Every request of the batch still tracked in request_queue or work_queue
\* has been reported in a terminal state by the asset server.
BatchTerminal == \A k \in Keys : (InRequestQueue(k) \/ InWorkQueue(k)) => load_state[k] \in Terminal

\* C1: after a successful submit() and before the next reset(), zero pending
\* requests implies the state is Done (never Loading with nothing pending).
C1_ZeroPendingImpliesDone == (submitted /\ pending_count = 0) => state = "Done"

\* C2: once every pending request of a submitted batch is reported terminal,
\* ticking eventually brings pending_count() to 0 and is_done() to true
\* (unless a reset() ends the batch first).
C2_Termination ==
    []((submitted /\ pending_count > 0 /\ BatchTerminal) =>
          <>(~submitted \/ (pending_count = 0 /\ is_done)))

\* C3: the state only changes Ready->Loading by submit, Loading->Done by a
\* tick that leaves zero pending, and to Ready by reset.
C3_OnlyLegalTransitions ==
    [][state' # state =>
          \/ state = "Ready" /\ state' = "Loading" /\ last_op'.op = "submit"
          \/ state = "Loading" /\ state' = "Done" /\ last_op'.op = "tick" /\ count' = 0
          \/ state' = "Ready" /\ last_op'.op = "reset"]_vars

\* C4: enqueue() in Loading or Done panics and leaves request_queue,
\* pending_count, total, state and the other queues as they were.
C4_RejectedEnqueue ==
    [][(last_op'.op = "enqueue" /\ state \in {"Loading", "Done"}) =>
          (last_op'.res = "panic" /\ UNCHANGED fields)]_vars

\* C4 witness: an enqueue() was rejected on a submitted batch with requests pending.
C4_Witness == last_op = Op("enqueue", "panic") /\ submitted /\ state = "Loading" /\ count > 0

\* C5: submit() in Loading or Done panics and leaves every field of the
\* loader as it was.
C5_RejectedSubmit ==
    [][(last_op'.op = "submit" /\ state \in {"Loading", "Done"}) =>
          (last_op'.res = "panic" /\ UNCHANGED fields)]_vars

\* C6: after a successful submit(), total_count() keeps its value through
\* every operation other than reset().
C6_TotalFrozen ==
    [][(submitted /\ last_op'.op # "reset") => total' = total]_vars

\* C7: a fresh or freshly reset loader on which enqueue() succeeded N times
\* and then submit() was called, with no tick in between, has total N,
\* pending N, is_empty() iff N = 0, and is Loading.
C7_EnqueueThenSubmit ==
    (last_op = Op("submit", "ok") /\ n_enq >= 0) =>
        /\ total_count = n_enq
        /\ pending_count = n_enq
        /\ is_empty = (n_enq = 0)
        /\ state = "Loading"

\* C8: each path is in at most one of request_queue, work_queue and
\* complete_queue.
C8_KeyInAtMostOneQueue ==
    \A k \in Keys :
        /\ ~(InRequestQueue(k) /\ InWorkQueue(k))
        /\ ~(InRequestQueue(k) /\ k \in complete_queue)
        /\ ~(InWorkQueue(k) /\ k \in complete_queue)

\* C9: within a submitted batch, once take(path) returned a handle the path
\* is absent for take() and is_loaded() until the next reset().
C9_TakeAtMostOnce == submitted => \A k \in taken : ~is_loaded(k)

\* C10: a tick (or a take) never increases pending_count().
C10_PendingNeverIncreases ==
    [][last_op'.op \in {"tick", "take"} => count' <= count]_vars

\* C10 witness: a tick has resolved part of a submitted batch.
C10_Witness == last_op.op = "tick" /\ submitted /\ 0 < count /\ count < total

\* C11: a tick of a loader that is Done leaves every field as it was and
\* hands no path to load_untyped.
C11_TickIdempotentWhenDone ==
    [][(state = "Done" /\ last_op'.op = "tick") =>
          (UNCHANGED fields /\ last_op'.started = <<>>)]_vars

\* C11 witness: a tick ran on a Done loader (the tick that writes Done puts
\* a path in complete_queue; here a take() has emptied it since).
C11_Witness == state = "Done" /\ submitted /\ last_op.op = "tick" /\ complete_queue = {} /\ taken # {}

\* C12: reset() called in Done leaves the loader with the fields of a freshly
\* constructed one (is_empty(), total_count() = 0, not done, Ready), so that
\* every later call, a function of the fields and of the server's answers,
\* acts as on a fresh loader.
C12_ResetFromDoneIsFresh ==
    [][(state = "Done" /\ last_op'.op = "reset") =>
          (fields' = Fresh /\ is_empty' /\ total_count' = 0 /\ ~is_done')]_vars

\* C12 witness: reset() returned after a call in Done with a loaded asset not taken.
C12_Witness == last_op = Op("reset", "Done") /\ \E k \in Keys : load_state[k] = "Loaded"

\* C13: after any reset() call the three queues are empty, pending_count and
\* total are 0 and the state is Ready.
C13_ResetClearsEverything == last_op.op = "reset" => fields = Fresh

\* C16: whenever total_count() > 0, pending_count() <= total_count(), so
\* progress() is in [0, 1].
C16_PendingAtMostTotal == total_count > 0 => pending_count <= total_count

\* The answers ans with Loaded and Failed exchanged in every answer about a
\* path of S.
Exchange(st) == CASE st = "Loaded" -> "Failed" [] st = "Failed" -> "Loaded" [] OTHER -> st
ExchangeFor(S, ans) ==
    [q \in DOMAIN ans |-> IF QueryKeys[q] \in S THEN Exchange(ans[q]) ELSE ans[q]]

\* C15: the loader does not tell Failed from Loaded: from equal fields, a
\* tick answered by ans and a tick answered by ans with Loaded and Failed
\* exchanged for any set of paths end with equal fields and made the same
\* load_untyped calls (no other call consults the server), so two loaders
\* fed such servers stay in the same state step by step.
C15_FailedSameAsLoaded ==
    \A ans \in Answers :
        LET result == TickResult(ans)
        IN  \A S \in (SUBSET Keys) \ {{}} : TickResult(ExchangeFor(S, ans)) = result

\* C15 witness: a tick got the answer Failed for a path of work_queue and
\* moved it to complete_queue, while another path is loaded.
C15_Witness ==
    /\ last_op.op = "tick"
    /\ \E k \in Keys : load_state[k] = "Failed" /\ is_loaded(k)
    /\ \E k \in Keys : load_state[k] = "Loaded" /\ is_loaded(k)

\* C20: while a path handed to the asset server has had no answer Loaded or
\* Failed, a submitted batch is not done.
C20_StuckBatchNeverDone == (submitted /\ unreported # {}) => ~is_done

\* C20, amended: while a path handed to the asset server is in no terminal
\* load state (Loaded, Failed, Unloaded), a submitted batch is not done,
\* whatever the number of ticks; no call fails because of it.
C20_UnresolvedBatchNeverDone ==
    (submitted /\ \E k \in unreported : load_state[k] \notin Terminal) => ~is_done

\* C20 witness: a submitted batch has one path loaded and one still loading
\* after a tick that handed nothing new to the server.
C20_Witness ==
    /\ submitted /\ last_op.op = "tick" /\ last_op.started = <<>>
    /\ \E k \in unreported : load_state[k] = "Loading" /\ InWorkQueue(k)
    /\ \E k \in Keys : load_state[k] = "Loaded" /\ is_loaded(k)

\* ---------------------------------------------------------------- scenario
\* The three-request scenario: enqueue "a", "b", "c", submit, then ticks
\* (with every answer the asset server can give) and takes.
ScenarioEnqueue == n_enq \in 0..(Len(ScenarioPaths) - 1) /\ ~submitted /\ Enqueue(ScenarioPaths[n_enq + 1])
ScenarioSubmit == n_enq = Len(ScenarioPaths) /\ ~submitted /\ Submit
ScenarioTick == submitted /\ Tick
ScenarioTake == \E path \in Paths : is_loaded(path) /\ Take(path)

ScenarioNext == ScenarioEnqueue \/ ScenarioSubmit \/ ScenarioTick \/ ScenarioTake
ScenarioSpec == Init /\ [][ScenarioNext]_vars

\* The load states reported in the first tick of the scenario.
ScenarioReport == [k \in Paths |-> CASE k = "a" -> "Loaded" [] k = "b" -> "Loading" [] OTHER -> "Failed"]

\* C14: in the scenario, the first tick after submit, answered "a" Loaded,
\* "b" Loading, "c" Failed, gives pending_count() = 1, is_loaded("a"),
\* is_loaded("c") and not is_done(); a further tick answered "b" Loaded gives
\* pending_count() = 0 and is_done().
C14_Scenario ==
    [][/\ (/\ last_op = Op("submit", "ok") /\ request_queue = ScenarioPaths
           /\ last_op'.op = "tick" /\ load_state' = ScenarioReport)
          => (pending_count' = 1 /\ is_loaded("a")' /\ is_loaded("c")' /\ ~is_done')
       /\ (/\ last_op.op = "tick" /\ last_op.started = ScenarioPaths /\ load_state = ScenarioReport
           /\ last_op'.op = "tick" /\ load_state'["b"] = "Loaded")
          => (pending_count' = 0 /\ is_done')]_vars

\* ------------------------------------------------- two execution contexts
\* The loader's locks and atomics taken one at a time: a tick runs in one
\* context while the caller's calls run in another, each step being one lock
\* acquisition (with what is done under it) or one atomic operation.  Two
\* locks are held across steps: work_queue by the tick during its scan, and
\* the state write lock by reset(); every other lock is a temporary of one
\* statement.
WorkLockedByTick == conc.tpc \in {"scan", "insert", "fetch", "write_done"}
StateLockedByCaller == conc.cpc \in {"reset_request", "reset_work", "reset_count", "reset_complete"}

\* What the steps of this view leave alone: the history of whole calls and
\* the Boot component.
calls == <<last_op, history, boot>>

\* tick: `let mut work_queue = self.work_queue.lock()`.
TickLockWork ==
    /\ conc.tpc = "idle"
    /\ conc' = [conc EXCEPT !.tpc = "scan", !.i = 0, !.started = NoPath]
    /\ UNCHANGED <<fields, load_state, calls>>

\* tick: one get_load_state of the scan, and the remove under the held lock.
TickScanQuery ==
    /\ conc.tpc = "scan"
    /\ conc.i < Len(work_queue)
    /\ LET k == work_queue[conc.i + 1]
       IN  \E st \in Later(load_state[k]) :
               /\ load_state' = [load_state EXCEPT ![k] = st]
               /\ IF st \in {"Loaded", "Failed"}
                  THEN /\ work_queue' = VecRemove(work_queue, conc.i)
                       /\ conc' = [conc EXCEPT !.tpc = "insert", !.path = k, !.started = NoPath]
                  ELSE /\ work_queue' = work_queue
                       /\ conc' = [conc EXCEPT !.i = @ + 1, !.started = NoPath]
    /\ UNCHANGED <<state, count, total, request_queue, complete_queue, calls>>

\* tick: `self.complete_queue.lock().insert(path, handle)`.
TickInsert ==
    /\ conc.tpc = "insert"
    /\ complete_queue' = complete_queue \cup {conc.path}
    /\ conc' = [conc EXCEPT !.tpc = "fetch", !.path = NoPath, !.started = NoPath]
    /\ UNCHANGED <<state, count, total, request_queue, work_queue, load_state, calls>>

\* tick: `self.count.fetch_sub(1, ..) == 1`.
TickFetchSub ==
    /\ conc.tpc = "fetch"
    /\ count' = FetchSub(count)
    /\ conc' = [conc EXCEPT !.tpc = IF count = 1 THEN "write_done" ELSE "scan", !.started = NoPath]
    /\ UNCHANGED <<state, total, request_queue, work_queue, complete_queue, load_state, calls>>

\* tick: `*self.state.write() = State::Done`, waiting for the state lock.
TickWriteDone ==
    /\ conc.tpc = "write_done"
    /\ ~StateLockedByCaller
    /\ state' = "Done"
    /\ conc' = [conc EXCEPT !.tpc = "scan", !.started = NoPath]
    /\ UNCHANGED <<count, total, request_queue, work_queue, complete_queue, load_state, calls>>

\* tick: the end of the scan block drops the work_queue guard.
TickUnlockWork ==
    /\ conc.tpc = "scan"
    /\ conc.i >= Len(work_queue)
    /\ conc' = [conc EXCEPT !.tpc = "swap", !.i = 0, !.started = NoPath]
    /\ UNCHANGED <<fields, load_state, calls>>

\* A variant of the swap that copies request_queue and leaves it as it is.
TickSwapCopies ==
    /\ conc.tpc = "swap"
    /\ conc' = [conc EXCEPT !.tpc = "drain", !.snapshot = request_queue, !.started = NoPath]
    /\ UNCHANGED <<fields, load_state, calls>>

\* tick: `std::mem::replace(&mut request_queue, vec![])` under the lock.
TickSwap ==
    /\ conc.tpc = "swap"
    /\ request_queue' = <<>>
    /\ conc' = [conc EXCEPT !.tpc = "drain", !.snapshot = request_queue, !.started = NoPath]
    /\ UNCHANGED <<state, count, total, work_queue, complete_queue, load_state, calls>>

\* tick: load_untyped(path) and get_load_state for the next drained path.
TickDrainLoad ==
    /\ conc.tpc = "drain"
    /\ conc.snapshot # <<>>
    /\ LET k == Head(conc.snapshot)
       IN  \E st \in Later(load_state[k]) :
               /\ load_state' = [load_state EXCEPT ![k] = st]
               /\ conc' = [conc EXCEPT !.tpc = IF st \in {"NotLoaded", "Loading"} THEN "push" ELSE "drain_sub",
                                       !.snapshot = Tail(@), !.path = k, !.started = k]
    /\ UNCHANGED <<fields, calls>>

\* tick: `self.work_queue.lock().push((path, handle))`.
TickPush ==
    /\ conc.tpc = "push"
    /\ work_queue' = Append(work_queue, conc.path)
    /\ conc' = [conc EXCEPT !.tpc = "drain", !.path = NoPath, !.started = NoPath]
    /\ UNCHANGED <<state, count, total, request_queue, complete_queue, load_state, calls>>

\* tick: `self.count.fetch_sub(1, Ordering::Release)` of the drain.
TickDrainSub ==
    /\ conc.tpc = "drain_sub"
    /\ count' = FetchSub(count)
    /\ conc' = [conc EXCEPT !.tpc = "drain", !.path = NoPath, !.started = NoPath]
    /\ UNCHANGED <<state, total, request_queue, work_queue, complete_queue, load_state, calls>>

\* tick returns.
TickReturn ==
    /\ conc.tpc = "drain"
    /\ conc.snapshot = <<>>
    /\ conc' = [conc EXCEPT !.tpc = "idle", !.started = NoPath]
    /\ UNCHANGED <<fields, load_state, calls>>

\* enqueue: `assert!(*self.state.read() == State::Ready)`; a failed assert
\* ends the call.  The requests the loader holds are bounded by MaxPending
\* (count is no measure of them once a reset() has run during a tick).
CallerEnqueueAssert(path) ==
    /\ conc.cpc = "idle"
    /\ Len(request_queue) + Len(conc.snapshot) + Len(work_queue) < MaxPending
    /\ state = "Ready"
    /\ conc' = [conc EXCEPT !.cpc = "enq_push", !.cpath = path, !.started = NoPath]
    /\ UNCHANGED <<fields, load_state, calls>>

\* enqueue: `self.request_queue.lock().push(path.to_owned())`.
CallerEnqueuePush ==
    /\ conc.cpc = "enq_push"
    /\ request_queue' = Append(request_queue, conc.cpath)
    /\ conc' = [conc EXCEPT !.cpc = "enq_add", !.cpath = NoPath, !.started = NoPath]
    /\ UNCHANGED <<state, count, total, work_queue, complete_queue, load_state, calls>>

\* enqueue: `self.count.fetch_add(1, Ordering::Release)`.
CallerEnqueueAdd ==
    /\ conc.cpc = "enq_add"
    /\ count' = FetchAdd(count)
    /\ conc' = [conc EXCEPT !.cpc = "idle", !.started = NoPath]
    /\ UNCHANGED <<state, total, request_queue, work_queue, complete_queue, load_state, calls>>

\* submit: `self.total = self.request_queue.lock().len()`.
CallerSubmitLen ==
    /\ conc.cpc = "idle"
    /\ total' = Len(request_queue)
    /\ conc' = [conc EXCEPT !.cpc = "submit_write", !.started = NoPath]
    /\ UNCHANGED <<state, count, request_queue, work_queue, complete_queue, load_state, calls>>

\* submit: the state write lock, the assert and the write of Loading; a
\* failed assert drops the guard and ends the call.
CallerSubmitWrite ==
    /\ conc.cpc = "submit_write"
    /\ state' = IF state = "Ready" THEN "Loading" ELSE state
    /\ conc' = [conc EXCEPT !.cpc = "idle", !.started = NoPath]
    /\ UNCHANGED <<count, total, request_queue, work_queue, complete_queue, load_state, calls>>

\* reset: `let mut state = self.state.write()`, held to the end of the call
\* (a call in Ready returns at once and changes nothing).
CallerResetLock ==
    /\ conc.cpc = "idle"
    /\ state # "Ready"
    /\ conc' = [conc EXCEPT !.cpc = "reset_request", !.started = NoPath]
    /\ UNCHANGED <<fields, load_state, calls>>

\* reset: `self.request_queue.lock().clear()`.
CallerResetRequest ==
    /\ conc.cpc = "reset_request"
    /\ request_queue' = <<>>
    /\ conc' = [conc EXCEPT !.cpc = "reset_work", !.started = NoPath]
    /\ UNCHANGED <<state, count, total, work_queue, complete_queue, load_state, calls>>

\* reset: `self.work_queue.lock().clear()`, waiting for the work_queue lock.
CallerResetWork ==
    /\ conc.cpc = "reset_work"
    /\ ~WorkLockedByTick
    /\ work_queue' = <<>>
    /\ conc' = [conc EXCEPT !.cpc = "reset_count", !.started = NoPath]
    /\ UNCHANGED <<state, count, total, request_queue, complete_queue, load_state, calls>>

\* reset: `self.count.store(0, ..); self.total = 0`.
CallerResetCount ==
    /\ conc.cpc = "reset_count"
    /\ count' = 0
    /\ total' = 0
    /\ conc' = [conc EXCEPT !.cpc = "reset_complete", !.started = NoPath]
    /\ UNCHANGED <<state, request_queue, work_queue, complete_queue, load_state, calls>>

\* reset: `self.complete_queue.lock().clear(); *state = State::Ready`, and
\* the guard is dropped.
CallerResetComplete ==
    /\ conc.cpc = "reset_complete"
    /\ complete_queue' = {}
    /\ state' = "Ready"
    /\ conc' = [conc EXCEPT !.cpc = "idle", !.started = NoPath]
    /\ UNCHANGED <<count, total, request_queue, work_queue, load_state, calls>>

\* take: `self.complete_queue.lock().remove(path)` finding a handle.
CallerTake(path) ==
    /\ conc.cpc = "idle"
    /\ path \in complete_queue
    /\ complete_queue' = complete_queue \ {path}
    /\ conc' = [conc EXCEPT !.started = NoPath]
    /\ UNCHANGED <<state, count, total, request_queue, work_queue, load_state, calls>>

ConcTick ==
    \/ TickLockWork \/ TickScanQuery \/ TickInsert \/ TickFetchSub \/ TickWriteDone
    \/ TickUnlockWork \/ TickSwap \/ TickDrainLoad \/ TickPush \/ TickDrainSub \/ TickReturn

ConcCaller ==
    \/ \E path \in Keys : CallerEnqueueAssert(path)
    \/ CallerEnqueuePush \/ CallerEnqueueAdd
    \/ CallerSubmitLen \/ CallerSubmitWrite
    \/ CallerResetLock \/ CallerResetRequest \/ CallerResetWork
    \/ CallerResetCount \/ CallerResetComplete
    \/ \E path \in Keys : CallerTake(path)

ConcNext == ConcTick \/ ConcCaller
ConcSpec == Init /\ [][ConcNext]_vars

\* The requests accepted and not yet handed to the asset server, oldest
\* first: what the tick swapped out and has not drained, then request_queue.
ToStart == conc.snapshot \o request_queue

\* C17: no accepted request is lost or started twice: the push of an accepted
\* enqueue appends its path to the requests to start, a load_untyped call
\* takes the oldest of them, reset's clear discards those of request_queue,
\* and no other step, the swap included, changes them.
C17_SwapLosesNoRequest ==
    [][IF conc'.started # NoPath
       THEN ToStart # <<>> /\ conc'.started = Head(ToStart) /\ ToStart' = Tail(ToStart)
       ELSE IF conc.cpc = "enq_push" /\ conc'.cpc # "enq_push"
       THEN ToStart' = Append(ToStart, conc.cpath)
       ELSE IF conc.cpc = "reset_request" /\ conc'.cpc # "reset_request"
       THEN ToStart' = conc.snapshot
       ELSE ToStart' = ToStart]_vars

\* C17 witness: a request was pushed while the tick held a swapped-out
\* request it had not yet started.
C17_Witness == conc.tpc = "drain" /\ conc.snapshot # <<>> /\ request_queue # <<>> /\ conc.cpc = "enq_add"

C21_SyncResolvedInNoQueue ==
    [][last_op'.op = "tick" =>
          \A k \in Keys :
              (InRequestQueue(k) /\ load_state'[k] \in Terminal) =>
                  /\ ~InWorkQueue(k)' /\ ~is_loaded(k)'
                  /\ (work_queue = <<>> /\ request_queue = <<k>>) => count' = count - 1]_vars

\* The indices of the entries of work_queue that a scan answered by ans
\* finds Loaded or Failed.
Finished(ans) == {j \in 1..Len(work_queue) : ans[j] \in {"Loaded", "Failed"}}

\* The entries of sequence v at the indices not in S, in their order.
RECURSIVE Without(_, _, _)
Without(v, S, j) ==
    IF j > Len(v) THEN <<>>
    ELSE (IF j \in S THEN <<>> ELSE <<v[j]>>) \o Without(v, S, j + 1)

\* C25: whatever the answers, the scan makes one query per entry that
\* work_queue held at the start of the tick, the j-th answer deciding the
\* j-th entry: the entries answered Loaded or Failed are removed, their
\* paths are in complete_queue and pending_count is down by their number;
\* the other entries stay, in their order.
C25_ScanVisitsEveryEntryOnce ==
    \A ans \in Answers :
        LET L == ScanLoop(TickStart, ans)
        IN  /\ L.q = Len(work_queue)
            /\ L.work = Without(work_queue, Finished(ans), 1)
            /\ L.complete = complete_queue \cup {work_queue[j] : j \in Finished(ans)}
            /\ L.count + Cardinality(Finished(ans)) = count

\* C25 witness: a scan of two entries removes the first and keeps the second.
C25_Witness ==
    /\ work_queue = <<"a", "b">>
    /\ \E ans \in Answers :
          /\ ans[1] = "Loaded" /\ ans[2] = "Loading"
          /\ ScanLoop(TickStart, ans).work = <<"b">>

\* C26: between calls, pending_count is the number of entries of
\* request_queue plus the number of entries of work_queue (so the counter
\* has never been decremented at 0, which would leave it at UsizeMax).
C26_CountIsQueueLengths == pending_count = Len(request_queue) + Len(work_queue)

\* C26 witness: after a tick that counted one request down, one request
\* waits in each of request_queue (enqueued since) and work_queue.
C26_Witness ==
    /\ last_op.op = "enqueue" /\ Len(request_queue) = 1 /\ Len(work_queue) = 1
    /\ \E k \in Keys : load_state[k] \in Terminal /\ ~InWorkQueue(k) /\ ~is_loaded(k)

\* C27: when a submit() succeeds, total_count() equals pending_count() and
\* both equal the number of enqueue() calls accepted since construction or
\* the last reset() that cleared the loader, whatever ticks ran in between.
C27_TotalIsPendingAtSubmit ==
    [][last_op' = Op("submit", "ok") =>
          (total_count' = pending_count' /\ total_count' = enqueued)]_vars

\* -------------------------------------------------------------------- Boot
\* 1.0, and the raw progress values and frame times the callers pass:
\* -1.0 to 2.0, and 1/Scale to 2.0 seconds.
One == Scale
RawValues == (-Scale)..(2 * Scale)
DeltaTimes == 1..(2 * Scale)

\* a * b and a / b on fixed-point numbers, rounded to the nearest unit.
FxMul(a, b) == (2 * a * b + Scale) \div (2 * Scale)
FxDiv(a, b) == (2 * a * Scale + b) \div (2 * b)
Clamp(x, lo, hi) == IF x < lo THEN lo ELSE IF x > hi THEN hi ELSE x
Min(x, y) == IF x <= y THEN x ELSE y

\* What the calls on a Boot leave alone: the loader and its history.
loader == <<fields, load_state, last_op, history, conc>>

\* A variant of set_progress without the final min.
set_progress_unbounded(raw, dt) ==
    LET progress == Clamp(raw, 0, One)
        delta_p == FxDiv(progress - boot.smoothed_progress, boot.speed)
        smoothed_progress == boot.smoothed_progress + FxMul(dt, delta_p)
    IN  /\ boot' = [boot EXCEPT !.progress = progress,
                                !.smoothed_progress = smoothed_progress]
        /\ UNCHANGED loader

set_progress(raw, dt) ==
    LET progress == Clamp(raw, 0, One)
        delta_p == FxDiv(progress - boot.smoothed_progress, boot.speed)
        smoothed_progress == boot.smoothed_progress + FxMul(dt, delta_p)
    IN  /\ boot' = [boot EXCEPT !.progress = progress,
                                !.smoothed_progress = Min(smoothed_progress, progress)]
        /\ UNCHANGED loader

\* A variant of the upper ratio without the item being loaded.
upper_ratio_completed(total_, remain) ==
    IF total_ > 0 /\ remain < total_
    THEN FxDiv((total_ - remain) * Scale, total_ * Scale)
    ELSE One

\* update_boot: the ratio of completed items plus one over the total.
upper_ratio(total_, remain) ==
    IF total_ > 0 /\ remain < total_
    THEN FxDiv((total_ - remain + 1) * Scale, total_ * Scale)
    ELSE One

\* update_boot on the entity holding the loader and the Boot (the despawn of
\* a Done loader's entity leaves both as they are).
update_boot(dt) ==
    IF is_done
    THEN UNCHANGED vars
    ELSE set_progress(upper_ratio(total_count, pending_count), dt)

BootNext ==
    \/ \E raw \in RawValues, dt \in DeltaTimes : set_progress(raw, dt)
    \/ \E dt \in DeltaTimes : update_boot(dt)
BootSpec == Init /\ [][BootNext]_vars

\* C22: after every set_progress call, smoothed_progress() <= progress().
C22_SmoothedAtMostProgress == boot.smoothed_progress <= boot.progress

\* C22 witness: a call with a frame time above the speed has been made and
\* the smoothed value, which would have overshot, equals the progress,
\* which is below 1.0.
C22_Witness == 0 < boot.progress /\ boot.progress < One /\ boot.smoothed_progress = boot.progress

\* C23: after every set_progress call, smoothed_progress() is in [0, 1].
C23_SmoothedInUnitInterval == 0 <= boot.smoothed_progress /\ boot.smoothed_progress <= One

====
